---------------------------- MODULE Spec2Model ----------------------------
(***************************************************************************)
(* Model of the Tauri command bridge of src-tauri/src/lib.rs: the commands *)
(* check_ffmpeg, run_ffmpeg, write_file, read_file, delete_file_cmd,       *)
(* get_temp_dir and get_downloads_dir, together with the part of the       *)
(* operating system they act on (a filesystem, child processes, the        *)
(* environment).  The file commands, the process commands and the          *)
(* directory commands share no state; each group has its specification.    *)
(*                                                                         *)
(* Text is a sequence of characters, each a one-character string; a string *)
(* literal of the program is written whole, as one element.  The tokens    *)
(* "0xFF", "U+FFFD" and "NUL" stand for a byte that is not valid UTF-8,    *)
(* the replacement character and the null character.  File content is a    *)
(* sequence of bytes (integers).  A path of the filesystem is the sequence *)
(* of its components.                                                      *)
(***************************************************************************)
EXTENDS Integers, Sequences, FiniteSets, TLC

VARIABLES
    fs,       \* the filesystem: path -> node
    was,      \* the filesystem as the last file command found it
    last,     \* the file command that returned last, with what it returned
    prev,     \* the file command before it
    windows,  \* cfg!(windows) of the build
    env,      \* the process environment: variable -> value or Unset
    proc,     \* the process command that returned last, with what it returned
    dir       \* the directory command that returned last, with what it returned

vars == <<fs, was, last, prev, windows, env, proc, dir>>

(***************************************************************************)
(* Bounds of the model.                                                    *)
(***************************************************************************)
MaxLen == 1      \* longest file content written
MaxOut == 3      \* longest standard output of `ffmpeg -version`
MaxWhich == 2    \* longest standard output of `which` / `where`
MaxRunOut == 1   \* longest standard output / error of an ffmpeg run
MaxEnv == 1      \* longest value of an environment variable

\* Sequences over S of length at most n.
SeqsUpTo(S, n) == UNION {[1..k -> S] : k \in 0..n}

Last(s) == s[Len(s)]
Front(s) == SubSeq(s, 1, Len(s) - 1)

(***************************************************************************)
(* The filesystem.                                                         *)
(***************************************************************************)
Byte == {0, 222}
Contents == SeqsUpTo(Byte, MaxLen)

\* "/", "/a", "/a/b" and "/a/b/c.bin"
Paths == {<<>>, <<"a">>, <<"a", "b">>, <<"a", "b", "c.bin">>}

Absent == [kind |-> "absent", ro |-> FALSE, data |-> <<>>]
NewDir == [kind |-> "dir", ro |-> FALSE, data |-> <<>>]
NewFile == [kind |-> "file", ro |-> FALSE, data |-> <<>>]

\* Path::parent: None for a path with no component left.
HasParent(p) == Len(p) > 0
Parent(p) == Front(p)

Node(f, p) == f[p]

\* Path::exists and Path::is_dir.
Exists(f, p) == Node(f, p).kind # "absent"
IsDir(f, p) == Node(f, p).kind = "dir"

IoOk(f) == [ok |-> TRUE, err |-> "", fs |-> f]
IoErr(e, f) == [ok |-> FALSE, err |-> e, fs |-> f]

\* mkdir(2): one directory, its parent must be a writable directory.
Mkdir(f, p) ==
    IF ~HasParent(p) THEN IoErr("AlreadyExists", f)
    ELSE IF ~Exists(f, Parent(p)) THEN IoErr("NotFound", f)
    ELSE IF ~IsDir(f, Parent(p)) THEN IoErr("NotADirectory", f)
    ELSE IF Exists(f, p) THEN IoErr("AlreadyExists", f)
    ELSE IF Node(f, Parent(p)).ro THEN IoErr("PermissionDenied", f)
    ELSE IoOk([f EXCEPT ![p] = NewDir])

\* A mutant of create_dir_all: std::fs::create_dir, the one directory alone.
create_dir(f, p) ==
    IF p = <<>> THEN IoOk(f)
    ELSE LET first == Mkdir(f, p)
         IN IF first.ok \/ ~IsDir(f, p) THEN first ELSE IoOk(f)

\* std::fs::create_dir_all: try the directory, on NotFound create the parent
\* first and try again; an error is forgiven when the path is a directory.
RECURSIVE create_dir_all(_, _)
create_dir_all(f, p) ==
    IF p = <<>> THEN IoOk(f)
    ELSE LET first == Mkdir(f, p)
         IN IF first.ok THEN first
            ELSE IF first.err # "NotFound"
            THEN (IF IsDir(f, p) THEN IoOk(f) ELSE first)
            ELSE LET up == create_dir_all(f, Parent(p))
                 IN IF ~up.ok THEN up
                    ELSE LET again == Mkdir(up.fs, p)
                         IN IF again.ok THEN again
                            ELSE IF IsDir(up.fs, p) THEN IoOk(up.fs)
                            ELSE again

\* A mutant of FileCreate: the file opened without O_TRUNC.
FileOpenNoTrunc(f, p) ==
    IF ~HasParent(p) THEN IoErr("IsADirectory", f)
    ELSE IF ~Exists(f, Parent(p)) THEN IoErr("NotFound", f)
    ELSE IF ~IsDir(f, Parent(p)) THEN IoErr("NotADirectory", f)
    ELSE IF IsDir(f, p) THEN IoErr("IsADirectory", f)
    ELSE IF Exists(f, p)
    THEN IoOk(f)
    ELSE IF Node(f, Parent(p)).ro THEN IoErr("PermissionDenied", f)
    ELSE IoOk([f EXCEPT ![p] = NewFile])

\* File::create: open(O_WRONLY | O_CREAT | O_TRUNC): an existing file is
\* emptied, a missing one is created in its (writable) parent directory.
FileCreate(f, p) ==
    IF ~HasParent(p) THEN IoErr("IsADirectory", f)
    ELSE IF ~Exists(f, Parent(p)) THEN IoErr("NotFound", f)
    ELSE IF ~IsDir(f, Parent(p)) THEN IoErr("NotADirectory", f)
    ELSE IF IsDir(f, p) THEN IoErr("IsADirectory", f)
    ELSE IF Exists(f, p)
    THEN IoOk([f EXCEPT ![p].data = <<>>])
    ELSE IF Node(f, Parent(p)).ro THEN IoErr("PermissionDenied", f)
    ELSE IoOk([f EXCEPT ![p] = NewFile])

\* Bytes written at offset 0 of a file holding `old`.
Overlay(old, new) == new \o SubSeq(old, Len(new) + 1, Len(old))

\* Write::write_all on the file just opened, from offset 0: the device takes
\* k of the bytes, and fewer than all of them is an error.
WriteAll(f, p, content, k) ==
    LET g == [f EXCEPT ![p].data = Overlay(@, SubSeq(content, 1, k))]
    IN IF k = Len(content) THEN IoOk(g) ELSE IoErr("WriteZero", g)

Result(op, p, content, io, stage, data) ==
    [op |-> op, path |-> p, content |-> content,
     res |-> IF io.ok THEN "Ok" ELSE "Err",
     stage |-> IF io.ok THEN "" ELSE stage,
     err |-> IF io.ok THEN "" ELSE stage \o ": " \o io.err,
     data |-> data]

\* write_file(path, content); k is the number of bytes the device takes.
write_file(f, p, content, k) ==
    LET dirs == IF HasParent(p) THEN create_dir_all(f, Parent(p)) ELSE IoOk(f)
    IN IF ~dirs.ok
       THEN [fs |-> dirs.fs,
             ret |-> Result("write", p, content, dirs, "create_dir_all", <<>>)]
       ELSE LET made == FileCreate(dirs.fs, p)
            IN IF ~made.ok
               THEN [fs |-> made.fs,
                     ret |-> Result("write", p, content, made, "create", <<>>)]
               ELSE LET wrote == WriteAll(made.fs, p, content, k)
                    IN [fs |-> wrote.fs,
                        ret |-> Result("write", p, content, wrote, "write_all", <<>>)]

\* A mutant of read_file: the file read as a C string, up to its first null byte.
RECURSIVE UpToNull(_)
UpToNull(s) ==
    IF s = <<>> \/ Head(s) = 0 THEN <<>> ELSE <<Head(s)>> \o UpToNull(Tail(s))

read_file_cstring(f, p) ==
    IF Node(f, p).kind = "file"
    THEN [fs |-> f, ret |-> Result("read", p, <<>>, IoOk(f), "", UpToNull(Node(f, p).data))]
    ELSE [fs |-> f, ret |-> Result("read", p, <<>>, IoErr("NotFound", f), "read", <<>>)]

\* read_file(path): std::fs::read, the whole file.
read_file(f, p) ==
    IF Node(f, p).kind = "file"
    THEN [fs |-> f, ret |-> Result("read", p, <<>>, IoOk(f), "", Node(f, p).data)]
    ELSE IF IsDir(f, p)
    THEN [fs |-> f, ret |-> Result("read", p, <<>>, IoErr("IsADirectory", f), "read", <<>>)]
    ELSE [fs |-> f, ret |-> Result("read", p, <<>>, IoErr("NotFound", f), "read", <<>>)]

\* std::fs::remove_file: unlink(2); a directory is not unlinked, and the
\* directory holding the entry must be writable.
RemoveFile(f, p) ==
    IF ~Exists(f, p) THEN IoErr("NotFound", f)
    ELSE IF IsDir(f, p) THEN IoErr("IsADirectory", f)
    ELSE IF Node(f, Parent(p)).ro THEN IoErr("PermissionDenied", f)
    ELSE IoOk([f EXCEPT ![p] = Absent])

\* A mutant of delete_file_cmd: remove_file without the exists() test.
delete_file_unguarded(f, p) ==
    LET io == RemoveFile(f, p)
    IN [fs |-> io.fs, ret |-> Result("delete", p, <<>>, io, "remove_file", <<>>)]

\* A mutant of delete_file_cmd: the error of remove_file dropped.
delete_file_silent(f, p) ==
    [fs |-> RemoveFile(f, p).fs, ret |-> Result("delete", p, <<>>, IoOk(f), "", <<>>)]

\* delete_file_cmd(path).
delete_file_cmd(f, p) ==
    IF Exists(f, p)
    THEN LET io == RemoveFile(f, p)
         IN [fs |-> io.fs, ret |-> Result("delete", p, <<>>, io, "remove_file", <<>>)]
    ELSE [fs |-> f, ret |-> Result("delete", p, <<>>, IoOk(f), "", <<>>)]

NoCall == [op |-> "none", path |-> <<>>, content |-> <<>>, res |-> "Ok",
           stage |-> "", err |-> "", data |-> <<>>]
Other == [op |-> "chmod", path |-> <<>>, content |-> <<>>, res |-> "Ok",
          stage |-> "", err |-> "", data |-> <<>>]


\* What is kept of the command before the last one.
Summary(r) == [op |-> r.op, path |-> r.path, content |-> r.content, res |-> r.res]

InitFiles ==
    /\ fs = [p \in Paths |-> IF p = <<>> THEN NewDir ELSE Absent]
    /\ was = fs
    /\ last = NoCall
    /\ prev = Summary(NoCall)
    /\ windows = FALSE /\ env = <<>> /\ proc = <<>> /\ dir = <<>>

Returned(r) ==
    /\ was' = fs
    /\ fs' = r.fs
    /\ prev' = Summary(last)
    /\ last' = r.ret

WriteFile ==
    /\ \E p \in Paths, c \in Contents :
          \E k \in 0..Len(c) : Returned(write_file(fs, p, c, k))
    /\ UNCHANGED <<windows, env, proc, dir>>

ReadFile ==
    /\ \E p \in Paths : Returned(read_file(fs, p))
    /\ UNCHANGED <<windows, env, proc, dir>>

DeleteFile ==
    /\ \E p \in Paths : Returned(delete_file_cmd(fs, p))
    /\ UNCHANGED <<windows, env, proc, dir>>

\* Another process changes the write permission of a directory below the root.
Chmod ==
    /\ \E p \in Paths :
          /\ HasParent(p)
          /\ IsDir(fs, p)
          /\ Returned([fs |-> [fs EXCEPT ![p].ro = ~@], ret |-> Other])
    /\ UNCHANGED <<windows, env, proc, dir>>

NextFiles == WriteFile \/ ReadFile \/ DeleteFile \/ Chmod

SpecFiles == InitFiles /\ [][NextFiles]_vars

(***************************************************************************)
(* Child processes.                                                        *)
(***************************************************************************)
None == <<>>
Some(x) == <<x>>

\* String::from_utf8_lossy: a byte that is not valid UTF-8 becomes U+FFFD.
from_utf8_lossy(bytes) ==
    [i \in 1..Len(bytes) |-> IF bytes[i] = "0xFF" THEN "U+FFFD" ELSE bytes[i]]

\* How a child ends: exit(code), or (not on Windows) killed by a signal.
Exited(c) == [exited |-> TRUE, code |-> c]
Signaled(n) == [exited |-> FALSE, code |-> n]

\* -1073741819 is 0xC0000005 read as an i32, the exit code of a Windows
\* access violation.
Statuses(w) ==
    IF w THEN {Exited(0), Exited(1), Exited(-1073741819)}
    ELSE {Exited(0), Exited(1), Signaled(9)}

\* A mutant of ExitStatus_code: the wait status shifted whatever it says,
\* which gives a killed child the code 0.
ExitStatus_code_unchecked(w, st) ==
    IF st.exited THEN Some(st.code) ELSE Some(0)

\* ExitStatus::code: the exit code, None when a signal ended the child.
ExitStatus_code(w, st) ==
    IF w THEN Some(st.code)
    ELSE IF st.exited THEN Some(st.code) ELSE None

\* ExitStatus::success: the child exited, with code 0.
ExitStatus_success(w, st) == st.exited /\ st.code = 0

\* What the operating system does with a launch.
Launched(st, out, err) ==
    [launched |-> TRUE, error |-> <<>>, status |-> st, stdout |-> out, stderr |-> err]
LaunchFailed(e) ==
    [launched |-> FALSE, error |-> e, status |-> Exited(0), stdout |-> <<>>,
     stderr |-> <<>>]

LaunchErrors ==
    {<<"No such file or directory (os error 2)">>,
     <<"Permission denied (os error 13)">>}

HasNul(args) == \E i \in 1..Len(args) : \E j \in 1..Len(args[i]) : args[i][j] = "NUL"

\* Command::new(program).args(args).output(): an argument holding a null
\* character is refused before anything is launched; otherwise the outcome
\* is the operating system's.
Command_output(args, os) ==
    IF HasNul(args) THEN LaunchFailed(<<"nul byte found in provided data">>)
    ELSE os

IsWhitespace(c) == c \in {" ", "\t", "\n", "\r"}

RECURSIVE TrimStart(_)
TrimStart(t) ==
    IF t # <<>> /\ IsWhitespace(Head(t)) THEN TrimStart(Tail(t)) ELSE t

RECURSIVE TrimEnd(_)
TrimEnd(t) ==
    IF t # <<>> /\ IsWhitespace(Last(t)) THEN TrimEnd(Front(t)) ELSE t

\* str::trim
trim(t) == TrimEnd(TrimStart(t))

\* The place of the first line feed of t, 0 when it has none.
FirstLf(t) ==
    IF \E i \in 1..Len(t) : t[i] = "\n"
    THEN CHOOSE i \in 1..Len(t) : t[i] = "\n" /\ \A j \in 1..(i - 1) : t[j] # "\n"
    ELSE 0

\* One item of str::lines: the line feed that ends it is dropped, and a
\* carriage return before that line feed.
StripEol(chunk) ==
    IF chunk # <<>> /\ Last(chunk) = "\n"
    THEN LET line == Front(chunk)
         IN IF line # <<>> /\ Last(line) = "\r" THEN Front(line) ELSE line
    ELSE chunk

\* str::lines: the text cut after each line feed.
RECURSIVE lines(_)
lines(t) ==
    IF t = <<>> THEN <<>>
    ELSE LET n == FirstLf(t)
         IN IF n = 0 THEN <<StripEol(t)>>
            ELSE <<StripEol(SubSeq(t, 1, n))>> \o lines(SubSeq(t, n + 1, Len(t)))

Unknown == <<"unknown">>

\* A mutant of version_line: the last line, not the first.
version_line_last(stdout) ==
    IF lines(stdout) = <<>> THEN Unknown ELSE Last(lines(stdout))

\* stdout.lines().next().unwrap_or("unknown")
version_line(stdout) ==
    IF lines(stdout) = <<>> THEN Unknown ELSE Head(lines(stdout))

Locator(w) == IF w THEN "where" ELSE "which"

FfmpegInfo(i, v, p, ran) ==
    [installed |-> i, version |-> v, path |-> p, spawned |-> ran]

\* A mutant of check_ffmpeg: the path looked up before the tool is tried.
check_ffmpeg_lookup_first(w, os, lookup) ==
    LET output == Command_output(<<<<"-version">>>>, os)
        found == Command_output(<<<<"ffmpeg">>>>, lookup)
        path == IF found.launched THEN trim(from_utf8_lossy(found.stdout)) ELSE <<>>
    IN IF output.launched
       THEN FfmpegInfo(ExitStatus_success(w, output.status),
                       version_line(from_utf8_lossy(output.stdout)), path,
                       <<Locator(w), "ffmpeg">>)
       ELSE FfmpegInfo(FALSE, <<>>, <<>>, <<Locator(w), "ffmpeg">>)

\* check_ffmpeg(); os and lookup are what the operating system does with the
\* launch of `ffmpeg -version` and of `which ffmpeg` / `where ffmpeg`.
\* `spawned` lists the programs the command tried to launch.
check_ffmpeg(w, os, lookup) ==
    LET output == Command_output(<<<<"-version">>>>, os)
    IN IF output.launched
       THEN LET stdout == from_utf8_lossy(output.stdout)
                found == Command_output(<<<<"ffmpeg">>>>, lookup)
                path == IF found.launched
                        THEN trim(from_utf8_lossy(found.stdout))
                        ELSE <<>>
            IN FfmpegInfo(ExitStatus_success(w, output.status),
                          version_line(stdout), path, <<"ffmpeg", Locator(w)>>)
       ELSE FfmpegInfo(FALSE, <<>>, <<>>, <<"ffmpeg">>)

FfmpegResult(ok, out, err, code) ==
    [kind |-> "FfmpegResult", success |-> ok, stdout |-> out, stderr |-> err,
     exit_code |-> code]

FailedToExecute == <<"Failed to execute ffmpeg: ">>

\* A mutant of run_ffmpeg: the cause of the failed launch left out.
run_ffmpeg_no_cause(w, args, os) ==
    LET output == Command_output(args, os)
    IN IF output.launched
       THEN FfmpegResult(ExitStatus_success(w, output.status),
                         from_utf8_lossy(output.stdout),
                         from_utf8_lossy(output.stderr),
                         ExitStatus_code(w, output.status))
       ELSE FfmpegResult(FALSE, <<>>, <<>>, None)

\* run_ffmpeg(args); os is what the operating system does with the launch.
run_ffmpeg(w, args, os) ==
    LET output == Command_output(args, os)
    IN IF output.launched
       THEN FfmpegResult(ExitStatus_success(w, output.status),
                         from_utf8_lossy(output.stdout),
                         from_utf8_lossy(output.stderr),
                         ExitStatus_code(w, output.status))
       ELSE FfmpegResult(FALSE, <<>>, FailedToExecute \o output.error, None)

\* What the children print.
VersionBytes == {"v", "\n", "\r", "0xFF"}
WhichBytes == {"/", " ", "\n"}
RunBytes == {"x", "0xFF"}

VersionOutcomes(w) ==
    {Launched(st, out, <<>>) : st \in Statuses(w), out \in SeqsUpTo(VersionBytes, MaxOut)}
        \cup {LaunchFailed(e) : e \in LaunchErrors}

LookupOutcomes ==
    {Launched(st, out, <<>>) : st \in {Exited(0), Exited(1)},
                               out \in SeqsUpTo(WhichBytes, MaxWhich)}
        \cup {LaunchFailed(e) : e \in LaunchErrors}

RunOutcomes(w) ==
    {Launched(st, out, err) : st \in Statuses(w),
                              out \in SeqsUpTo(RunBytes, MaxRunOut),
                              err \in SeqsUpTo(RunBytes, MaxRunOut)}
        \cup {LaunchFailed(e) : e \in LaunchErrors}

Args == {<<>>, <<<<"-", "y">>>>, <<<<"-", "i">>, <<"NUL">>>>}

Idle == [op |-> "idle"]

InitProcesses ==
    /\ windows \in BOOLEAN
    /\ proc = Idle
    /\ fs = <<>> /\ was = <<>> /\ last = <<>> /\ prev = <<>>
    /\ env = <<>> /\ dir = <<>>

CheckFfmpeg ==
    /\ proc = Idle
    /\ \E os \in VersionOutcomes(windows), lookup \in LookupOutcomes :
          proc' = [op |-> "check", os |-> os, lookup |-> lookup,
                   ret |-> check_ffmpeg(windows, os, lookup)]
    /\ UNCHANGED <<fs, was, last, prev, windows, env, dir>>

RunFfmpeg ==
    /\ proc = Idle
    /\ \E args \in Args, os \in RunOutcomes(windows) :
          proc' = [op |-> "run", args |-> args, os |-> Command_output(args, os),
                   ret |-> run_ffmpeg(windows, args, os)]
    /\ UNCHANGED <<fs, was, last, prev, windows, env, dir>>

\* The reply is serialized and handed to the caller; the next command may come.
Reply ==
    /\ proc # Idle
    /\ proc' = Idle
    /\ UNCHANGED <<fs, was, last, prev, windows, env, dir>>

NextProcesses == CheckFfmpeg \/ RunFfmpeg \/ Reply

SpecProcesses == InitProcesses /\ [][NextProcesses]_vars

(***************************************************************************)
(* The environment and the directory commands.                             *)
(***************************************************************************)
EnvNames == {"HOME", "USERPROFILE", "TMP"}
EnvChars == {"/", "h", "0xFF"}
\* A variable is unset (None) or set to a value, which need not be Unicode.
EnvValues == {None} \cup {Some(v) : v \in SeqsUpTo(EnvChars, MaxEnv)}

IsUnicode(v) == \A i \in 1..Len(v) : v[i] # "0xFF"

\* std::env::var(name).unwrap_or_default(): the value, or "" when the
\* variable is unset (NotPresent) or its value is not Unicode (NotUnicode).
var_or_default(e, name) ==
    IF e[name] # None /\ IsUnicode(e[name][1]) THEN e[name][1] ELSE <<>>

\* std::env::temp_dir: TMPDIR or "/tmp"; on Windows what GetTempPath2 gives,
\* the value of TMP or the Windows directory.  TMP stands for both variables.
temp_dir(w, e) ==
    IF e["TMP"] # None THEN e["TMP"][1]
    ELSE IF w THEN <<"C", ":", "\\", "W", "i", "n", "d", "o", "w", "s", "\\">>
    ELSE <<"/", "t", "m", "p">>

MainSeparator(w) == IF w THEN "\\" ELSE "/"
IsSeparator(w, c) == c = "/" \/ (w /\ c = "\\")

\* Path::join of a relative name: a separator is put in between unless the
\* path is empty or ends with one.
join(w, base, name) ==
    IF base = <<>> \/ IsSeparator(w, Last(base)) THEN base \o name
    ELSE base \o <<MainSeparator(w)>> \o name

\* get_temp_dir()
get_temp_dir(w, e) == from_utf8_lossy(join(w, temp_dir(w, e), <<"DarkVideoFactory">>))

HomeName(w) == IF w THEN "USERPROFILE" ELSE "HOME"

\* A mutant of get_downloads_dir: no test of an empty home.
get_downloads_dir_no_fallback(w, e) ==
    var_or_default(e, HomeName(w)) \o <<MainSeparator(w)>> \o <<"Downloads">>

\* get_downloads_dir()
get_downloads_dir(w, e) ==
    LET home == var_or_default(e, HomeName(w))
        sep == IF w THEN "\\" ELSE "/"
    IN IF home = <<>> THEN get_temp_dir(w, e)
       ELSE home \o <<sep>> \o <<"Downloads">>

InitDirectories ==
    /\ windows \in BOOLEAN
    /\ env = [n \in EnvNames |-> None]
    /\ dir = Idle
    /\ fs = <<>> /\ was = <<>> /\ last = <<>> /\ prev = <<>> /\ proc = <<>>

\* The environment the application is started in.
SetEnv ==
    /\ dir = Idle
    /\ \E n \in EnvNames, v \in EnvValues : env' = [env EXCEPT ![n] = v]
    /\ UNCHANGED <<fs, was, last, prev, windows, proc, dir>>

GetTempDir ==
    /\ dir = Idle
    /\ dir' = [op |-> "temp", ret |-> get_temp_dir(windows, env)]
    /\ UNCHANGED <<fs, was, last, prev, windows, env, proc>>

GetDownloadsDir ==
    /\ dir = Idle
    /\ dir' = [op |-> "downloads", ret |-> get_downloads_dir(windows, env)]
    /\ UNCHANGED <<fs, was, last, prev, windows, env, proc>>

\* The reply is handed to the caller; the next command may come.
ReplyDir ==
    /\ dir # Idle
    /\ dir' = Idle
    /\ UNCHANGED <<fs, was, last, prev, windows, env, proc>>

NextDirectories == SetEnv \/ GetTempDir \/ GetDownloadsDir \/ ReplyDir

SpecDirectories == InitDirectories /\ [][NextDirectories]_vars

(***************************************************************************)
(* Properties of the process commands.                                     *)
(***************************************************************************)
\* C1 as stated: exit_code is present exactly when the process was launched,
\* however it ended, and success is true iff exit_code is 0.
C1_ExitCodeIffLaunched ==
    proc.op = "run" =>
        /\ proc.ret.exit_code # None <=> proc.os.launched
        /\ proc.ret.success <=> proc.ret.exit_code = Some(0)

\* C1 amended: exit_code is absent exactly when the launch failed or a signal
\* ended the process; a process that exited gives its exit code; and success
\* is true iff exit_code is 0.
C1_ExitCodeIffExited ==
    proc.op = "run" =>
        /\ proc.ret.exit_code = None <=>
              ~proc.os.launched \/ ~proc.os.status.exited
        /\ proc.os.launched /\ proc.os.status.exited =>
              proc.ret.exit_code = Some(proc.os.status.code)
        /\ proc.ret.success <=> proc.ret.exit_code = Some(0)

\* An ffmpeg that was launched and killed by a signal.
C1_Witness ==
    /\ proc.op = "run" /\ proc.os.launched /\ ~proc.os.status.exited
    /\ proc.ret.exit_code = None /\ ~proc.ret.success

\* C2: run_ffmpeg always returns an FfmpegResult, and when the launch fails
\* it has success = false, no exit_code, an empty stdout and a stderr that
\* is not empty and ends with the cause.
C2_LaunchFailureInResult ==
    proc.op = "run" =>
        /\ proc.ret.kind = "FfmpegResult"
        /\ ~proc.os.launched =>
              /\ ~proc.ret.success
              /\ proc.ret.exit_code = None
              /\ proc.ret.stdout = <<>>
              /\ proc.ret.stderr # <<>>
              /\ proc.os.error # <<>>
              /\ \E n \in 1..Len(proc.ret.stderr) :
                    SubSeq(proc.ret.stderr, n, Len(proc.ret.stderr)) = proc.os.error

\* A launch refused for a null character in an argument.
C2_Witness ==
    /\ proc.op = "run" /\ HasNul(proc.args) /\ ~proc.os.launched
    /\ ~proc.ret.success /\ proc.ret.stderr # <<>>

\* C5: when `ffmpeg -version` cannot be launched check_ffmpeg returns
\* installed = false, version = "" and path = "", and launches nothing else.
C5_NotInstalled ==
    proc.op = "check" /\ ~proc.os.launched =>
        /\ ~proc.ret.installed
        /\ proc.ret.version = <<>>
        /\ proc.ret.path = <<>>
        /\ proc.ret.spawned = <<"ffmpeg">>

\* ffmpeg missing where the lookup would have printed something.
C5_Witness ==
    /\ proc.op = "check" /\ ~proc.os.launched
    /\ proc.lookup.launched /\ trim(proc.lookup.stdout) # <<>>
    /\ proc.ret.path = <<>> /\ ~proc.ret.installed

HasLf(t) == \E i \in 1..Len(t) : t[i] = "\n"

\* l is the first line of t: what precedes the first line feed (all of t
\* when it has none), less the carriage return of a CR LF.
IsFirstLineOf(l, t) ==
    \/ ~HasLf(t) /\ l = t
    \/ \E n \in 1..Len(t) :
          /\ t[n] = "\n" /\ ~HasLf(SubSeq(t, 1, n - 1))
          /\ \/ n > 1 /\ t[n - 1] = "\r" /\ l = SubSeq(t, 1, n - 2)
             \/ ~(n > 1 /\ t[n - 1] = "\r") /\ l = SubSeq(t, 1, n - 1)

AllWhitespace(t) == \A i \in 1..Len(t) : IsWhitespace(t[i])

\* r is t without the whitespace at its two ends.
IsTrimOf(r, t) ==
    /\ r = <<>> \/ (~IsWhitespace(Head(r)) /\ ~IsWhitespace(Last(r)))
    /\ \E i \in 1..(Len(t) + 1), j \in 0..Len(t) :
          /\ r = SubSeq(t, i, j)
          /\ AllWhitespace(SubSeq(t, 1, i - 1))
          /\ AllWhitespace(SubSeq(t, j + 1, Len(t)))

\* C6: when `ffmpeg -version` is launched, installed is whether it exited
\* with success, version is the first line of its output or "unknown" when
\* the output is empty, and path is the trimmed output of the platform's
\* lookup (where on Windows, which elsewhere) or "" when the lookup cannot
\* be launched.
C6_Installed ==
    proc.op = "check" /\ proc.os.launched =>
        /\ proc.ret.installed <=> proc.os.status.exited /\ proc.os.status.code = 0
        /\ IF proc.os.stdout = <<>> THEN proc.ret.version = Unknown
           ELSE IsFirstLineOf(proc.ret.version, from_utf8_lossy(proc.os.stdout))
        /\ proc.ret.spawned = <<"ffmpeg", IF windows THEN "where" ELSE "which">>
        /\ IF proc.lookup.launched
           THEN IsTrimOf(proc.ret.path, from_utf8_lossy(proc.lookup.stdout))
           ELSE proc.ret.path = <<>>

\* Two lines of output, the first one reported, and a lookup that failed.
C6_Witness ==
    /\ proc.op = "check" /\ proc.os.launched /\ ~proc.lookup.launched
    /\ proc.os.stdout = <<"v", "\r", "\n">>
    /\ proc.ret.version = <<"v">> /\ proc.ret.path = <<>> /\ proc.ret.installed

(***************************************************************************)
(* Properties of the directory commands.                                   *)
(***************************************************************************)
HomeValue == env[HomeName(windows)]

\* C7 as stated: the result is never empty; it is get_temp_dir()'s when the
\* home variable is unset or empty, and otherwise the home directory, the
\* separator and "Downloads".
C7_TempIffUnsetOrEmpty ==
    dir.op = "downloads" =>
        /\ dir.ret # <<>>
        /\ IF HomeValue = None \/ HomeValue = Some(<<>>)
           THEN dir.ret = get_temp_dir(windows, env)
           ELSE dir.ret = HomeValue[1] \o <<MainSeparator(windows), "Downloads">>

\* C7 amended: the result is never empty; it is get_temp_dir()'s when the
\* home variable is unset, empty or not valid Unicode, and otherwise the home
\* directory, the separator and "Downloads".
C7_TempIffNoUsableHome ==
    dir.op = "downloads" =>
        /\ dir.ret # <<>>
        /\ IF HomeValue = None \/ HomeValue = Some(<<>>) \/ ~IsUnicode(HomeValue[1])
           THEN dir.ret = get_temp_dir(windows, env)
           ELSE dir.ret = HomeValue[1] \o <<MainSeparator(windows), "Downloads">>

\* The home variable set to a value that is not Unicode, and the temporary
\* directory returned.
C7_Witness ==
    /\ dir.op = "downloads"
    /\ HomeValue # None /\ HomeValue # Some(<<>>) /\ ~IsUnicode(HomeValue[1])
    /\ dir.ret = get_temp_dir(windows, env) /\ dir.ret # <<>>

(***************************************************************************)
(* Properties of the file commands.                                        *)
(***************************************************************************)
\* The proper ancestors of a path, the root included.
Ancestors(p) == {SubSeq(p, 1, n) : n \in 0..(Len(p) - 1)}

IsPrefix(s, t) == Len(s) <= Len(t) /\ s = SubSeq(t, 1, Len(s))

\* write_file followed at once by read_file of the same path.
WriteThenRead ==
    /\ prev.op = "write" /\ prev.res = "Ok"
    /\ last.op = "read" /\ last.path = prev.path

\* C3: a successful write_file(path, content) followed immediately by
\* read_file(path) returns success with exactly the bytes of content.
C3_RoundTrip ==
    WriteThenRead => last.res = "Ok" /\ last.data = prev.content

\* A round trip of a content that holds a null byte.
C3_Witness ==
    /\ WriteThenRead
    /\ \E i \in 1..Len(prev.content) : prev.content[i] = 0
    /\ last.res = "Ok" /\ last.data = prev.content

\* delete_file called twice in succession on the same path.
DeleteTwice ==
    /\ prev.op = "delete" /\ last.op = "delete" /\ last.path = prev.path

\* C4 as stated: whatever the path is, the second of two successive
\* delete_file calls on it never returns an error.
C4_SecondNeverFails == DeleteTwice => last.res = "Ok"

\* C4 amended: the second of two successive delete_file calls returns an
\* error only if the first did (the path is still there: a directory, or an
\* entry of a directory that cannot be written).
C4_SecondFailsOnlyIfFirstDid ==
    DeleteTwice /\ last.res = "Err" => prev.res = "Err" /\ Exists(fs, last.path)

\* A file written, deleted, and deleted again.
C4_Witness ==
    /\ DeleteTwice /\ prev.res = "Ok" /\ last.res = "Ok"
    /\ ~Exists(fs, last.path) /\ HasParent(last.path)

\* write_file can succeed from `f`: no ancestor of the path is a file, the
\* deepest ancestor that exists can be written when something is missing
\* below it, and the path is no directory.
Creatable(f, p) ==
    /\ HasParent(p)
    /\ ~IsDir(f, p)
    /\ \A a \in Ancestors(p) : Node(f, a).kind # "file"
    /\ \A a \in Ancestors(p) \cup {p} :
          HasParent(a) /\ ~Exists(f, a) /\ Exists(f, Parent(a)) => ~Node(f, Parent(a)).ro

\* C8: write_file creates every missing ancestor directory and then the file:
\* where that is possible the directories and the file exist afterwards, as
\* they do after every successful write_file; and when the directories
\* cannot be created write_file returns an error and leaves the file as it was.
C8_CreatesAncestors ==
    last.op = "write" =>
        /\ Creatable(was, last.path) \/ last.res = "Ok" =>
              /\ \A a \in Ancestors(last.path) : IsDir(fs, a)
              /\ Node(fs, last.path).kind = "file"
        /\ \/ last.stage = "create_dir_all"
           \/ HasParent(last.path) /\ ~IsDir(fs, Parent(last.path))
           => /\ last.res = "Err"
              /\ Node(fs, last.path) = Node(was, last.path)

\* "a/b/c.bin" written where neither "a" nor "a/b" existed.
C8_Witness ==
    /\ last.op = "write" /\ last.res = "Ok" /\ Len(last.path) = 3
    /\ \A a \in Ancestors(last.path) : HasParent(a) => ~Exists(was, a)
    /\ \A a \in Ancestors(last.path) : IsDir(fs, a)
    /\ Node(fs, last.path).kind = "file"

\* C9: delete_file of a path that does not exist returns success and changes
\* nothing; it returns an error only when the path exists and is still there
\* afterwards; when the path exists and delete_file succeeds it is gone.
C9_Delete ==
    last.op = "delete" =>
        /\ ~Exists(was, last.path) => last.res = "Ok" /\ fs = was
        /\ last.res = "Err" => Exists(was, last.path) /\ Exists(fs, last.path)
        /\ Exists(was, last.path) /\ last.res = "Ok" => ~Exists(fs, last.path)
        /\ \A q \in Paths \ {last.path} : fs[q] = was[q]

\* delete_file of a missing path, straight after a successful one.
C9_Witness ==
    /\ DeleteTwice /\ last.res = "Ok"
    /\ ~Exists(was, last.path) /\ fs = was

\* C10: write_file replaces: after a successful write_file the file holds
\* exactly the content of that call, whatever it held before; and a
\* write_file that fails once the file is open leaves a proper prefix of its
\* content there, not what the file held.
C10_Replaces ==
    last.op = "write" =>
        /\ last.res = "Ok" => Node(fs, last.path).data = last.content
        /\ /\ last.res = "Err"
           /\ Node(was, last.path).kind = "file"
           /\ IsDir(was, Parent(last.path))
           => /\ Node(fs, last.path).kind = "file"
              /\ IsPrefix(Node(fs, last.path).data, last.content)
              /\ Node(fs, last.path).data # last.content

\* A file written twice, the second time with less.
C10_Witness ==
    /\ prev.op = "write" /\ prev.res = "Ok"
    /\ last.op = "write" /\ last.res = "Ok" /\ last.path = prev.path
    /\ Len(last.content) < Len(prev.content)
    /\ Node(fs, last.path).data = last.content

=============================================================================
